---- MODULE Spec2Model ----
(***************************************************************************)
(* close-duplicate-tabs: the duplicate-detection functions of utils.js /   *)
(* background.js and the service worker's handlers, as a state machine.    *)
(***************************************************************************)
EXTENDS Integers, Sequences, FiniteSets, TLC

(***************************************************************************)
(* Bounds                                                                  *)
(***************************************************************************)
\* longest tab list handed to findTabsToClose on its own
MaxTabs == 3
\* highest tab id the browser assigns before the model stops opening tabs
MaxTabId == 3
\* longest tab list whose grouping keys are examined
MaxKeyTabs == 3

(***************************************************************************)
(* URL strings.  A string is kept as the parts the WHATWG parser would cut *)
(* it into; a string that does not parse has parses = FALSE and its text   *)
(* in path.  slashes tells whether "//" follows the scheme's colon.        *)
(***************************************************************************)
MkUrl(scheme, slashes, host, path, query, frag, parses) ==
    [scheme |-> scheme, slashes |-> slashes, host |-> host, path |-> path,
     query |-> query, frag |-> frag, parses |-> parses]

UrlPage      == MkUrl("https", TRUE, "a.com", "/p", "", "", TRUE)
UrlPageQuery == MkUrl("https", TRUE, "a.com", "/p", "?x=1", "#top", TRUE)
UrlRoot      == MkUrl("https", TRUE, "b.com", "", "", "", TRUE)
UrlRootQuery == MkUrl("https", TRUE, "b.com", "/", "?id=1", "", TRUE)
UrlChrome    == MkUrl("chrome", TRUE, "settings", "/", "", "", TRUE)
UrlAbout     == MkUrl("about", FALSE, "", "blank", "", "", TRUE)
UrlExtension == MkUrl("chrome-extension", TRUE, "abc123", "/popup.html", "", "", TRUE)
UrlEdge      == MkUrl("edge", TRUE, "settings", "/", "", "", TRUE)
UrlMalformed == MkUrl("", FALSE, "", "not a url", "", "", FALSE)
\* a path with no scheme and no host: not an absolute URL
UrlRelative  == MkUrl("", FALSE, "", "/p", "", "", FALSE)

RegularUrls == {UrlPage, UrlPageQuery, UrlRoot, UrlRootQuery, UrlMalformed}
SpecialUrls == {UrlChrome, UrlAbout, UrlExtension, UrlEdge}
Urls == RegularUrls \cup SpecialUrls

\* JavaScript's null, a value no tab id equals
null == -1

(***************************************************************************)
(* utils.js: the pure functions                                            *)
(***************************************************************************)
\* URL.pathname: a special-scheme URL (http, https) has "/" for an empty path
pathname(url) ==
    IF url.path = "" /\ url.scheme \in {"http", "https"} THEN "/" ELSE url.path

\* getBaseUrl with urlObj.search kept after the path
getBaseUrl_withSearch(url) ==
    IF url.parses
    THEN MkUrl(url.scheme, TRUE, url.host, pathname(url), url.query, "", TRUE)
    ELSE url

\* getBaseUrl with one fixed key for every string new URL rejects
getBaseUrl_oneKeyForInvalid(url) ==
    IF url.parses
    THEN MkUrl(url.scheme, TRUE, url.host, pathname(url), "", "", TRUE)
    ELSE MkUrl("", FALSE, "", "", "", "", FALSE)

\* `${urlObj.protocol}//${urlObj.host}${urlObj.pathname}`, or the input when
\* new URL(url) throws
getBaseUrl(url) ==
    IF url.parses
    THEN MkUrl(url.scheme, TRUE, url.host, pathname(url), "", "", TRUE)
    ELSE url

\* groupTabsByBaseUrl with a new group for every tab
groupTabsByBaseUrl_groupPerTab(tabs) ==
    [i \in 1..Len(tabs) |-> [key |-> getBaseUrl(tabs[i].url), tabs |-> <<tabs[i]>>]]

\* tabs.reduce(...): the groups in order of first appearance of their key
\* (Object.values order), each group in order of appearance of its tabs
RECURSIVE groupTabsByBaseUrl(_)
groupTabsByBaseUrl(tabs) ==
    IF tabs = <<>> THEN <<>>
    ELSE LET groups  == groupTabsByBaseUrl(SubSeq(tabs, 1, Len(tabs) - 1))
             tab     == tabs[Len(tabs)]
             baseUrl == getBaseUrl(tab.url)
         IN IF \E i \in 1..Len(groups) : groups[i].key = baseUrl
            THEN [i \in 1..Len(groups) |->
                    IF groups[i].key = baseUrl
                    THEN [groups[i] EXCEPT !.tabs = Append(@, tab)]
                    ELSE groups[i]]
            ELSE Append(groups, [key |-> baseUrl, tabs |-> <<tab>>])

specialPrefixes ==
    << [scheme |-> "chrome", slashes |-> TRUE],
       [scheme |-> "about", slashes |-> FALSE],
       [scheme |-> "chrome-extension", slashes |-> TRUE],
       [scheme |-> "edge", slashes |-> TRUE] >>

\* String.prototype.startsWith for a prefix "scheme:" or "scheme://"
startsWith(url, prefix) ==
    /\ url.scheme = prefix.scheme
    /\ prefix.slashes => url.slashes

\* isSpecialUrl with the last prefix of the list never tried
isSpecialUrl_lastPrefixSkipped(url) ==
    \E i \in 1..(Len(specialPrefixes) - 1) : startsWith(url, specialPrefixes[i])

isSpecialUrl(url) ==
    \E i \in 1..Len(specialPrefixes) : startsWith(url, specialPrefixes[i])

\* filterSpecialUrls handing back the kept tabs last to first
filterSpecialUrls_reversed(tabs) ==
    LET kept == SelectSeq(tabs, LAMBDA tab : ~isSpecialUrl(tab.url))
    IN [i \in 1..Len(kept) |-> kept[Len(kept) + 1 - i]]

filterSpecialUrls(tabs) ==
    SelectSeq(tabs, LAMBDA tab : ~isSpecialUrl(tab.url))

\* group.sort((a, b) => a.id - b.id): ascending by id, stable
RECURSIVE sortById(_)
sortById(group) ==
    IF Len(group) <= 1 THEN group
    ELSE LET sorted == sortById(SubSeq(group, 1, Len(group) - 1))
             tab    == group[Len(group)]
             k      == Cardinality({i \in 1..Len(sorted) : sorted[i].id <= tab.id})
         IN SubSeq(sorted, 1, k) \o <<tab>> \o SubSeq(sorted, k + 1, Len(sorted))

idsOfTabs(tabs) == [i \in 1..Len(tabs) |-> tabs[i].id]

SeqToSet(s) == {s[i] : i \in 1..Len(s)}
idSetOfSeq(tabs) == {tabs[i].id : i \in 1..Len(tabs)}

\* closeFromGroup with the newest tab kept whether or not the active tab is
\* in the group
closeFromGroup_keepNewest(group, currentTabId) ==
    IF Len(group) <= 1 THEN <<>>
    ELSE LET sorted == sortById(group)
             tabToKeep == sorted[Len(sorted)].id
         IN idsOfTabs(SelectSeq(sorted, LAMBDA tab : tab.id # tabToKeep))

\* closeFromGroup without the sort: "newest" is the group's last tab in list
\* order
closeFromGroup_unsorted(group, currentTabId) ==
    IF Len(group) <= 1 THEN <<>>
    ELSE LET isActiveTabInGroup ==
                 \E i \in 1..Len(group) : group[i].id = currentTabId
             tabToKeep ==
                 IF isActiveTabInGroup THEN currentTabId
                 ELSE group[Len(group)].id
         IN idsOfTabs(SelectSeq(group, LAMBDA tab : tab.id # tabToKeep))

\* closeFromGroup closing one tab only, the oldest that is not kept
closeFromGroup_closeFirst(group, currentTabId) ==
    IF Len(group) <= 1 THEN <<>>
    ELSE LET sorted == sortById(group)
             isActiveTabInGroup ==
                 \E i \in 1..Len(sorted) : sorted[i].id = currentTabId
             tabToKeep ==
                 IF isActiveTabInGroup THEN currentTabId
                 ELSE sorted[Len(sorted)].id
         IN SubSeq(idsOfTabs(SelectSeq(sorted, LAMBDA tab : tab.id # tabToKeep)), 1, 1)

\* the body of the forEach over the groups: the ids one group contributes
closeFromGroup(group, currentTabId) ==
    IF Len(group) <= 1 THEN <<>>
    ELSE LET sorted == sortById(group)
             isActiveTabInGroup ==
                 \E i \in 1..Len(sorted) : sorted[i].id = currentTabId
             tabToKeep ==
                 IF isActiveTabInGroup THEN currentTabId
                 ELSE sorted[Len(sorted)].id
         IN idsOfTabs(SelectSeq(sorted, LAMBDA tab : tab.id # tabToKeep))

RECURSIVE closeFromGroups(_, _)
closeFromGroups(groups, currentTabId) ==
    IF groups = <<>> THEN <<>>
    ELSE closeFromGroups(SubSeq(groups, 1, Len(groups) - 1), currentTabId)
         \o closeFromGroup(groups[Len(groups)].tabs, currentTabId)

\* findTabsToClose with the eligible tabs taken as one group
findTabsToClose_oneGroup(tabs, currentTabId) ==
    closeFromGroup(filterSpecialUrls(tabs), currentTabId)

findTabsToClose(tabs, currentTabId) ==
    LET filteredTabs == filterSpecialUrls(tabs)
        grouped      == groupTabsByBaseUrl(filteredTabs)
    IN closeFromGroups(grouped, currentTabId)

(***************************************************************************)
(* Regular expressions: the rule patterns users type, each with what       *)
(* new RegExp(source) and pattern.test(url) do on the URLs above.          *)
(***************************************************************************)
RuleRegexes == {"a\\.com", "^https", "settings|b\\.com", "[invalid(regex"}

\* new RegExp(ruleRegex) returns (TRUE) or throws a SyntaxError (FALSE)
regExpCompiles(ruleRegex) == ruleRegex # "[invalid(regex"

\* pattern.test(tab.url)
regExpTest(ruleRegex, url) ==
    CASE ruleRegex = "a\\.com" -> url.host = "a.com"
      [] ruleRegex = "^https" -> url.scheme = "https"
      [] ruleRegex = "settings|b\\.com" -> url.host \in {"settings", "b.com"}
      [] OTHER -> FALSE

(***************************************************************************)
(* background.js: executeCustomRule's selection, from the filter to the    *)
(* close-list handed to closeAndStoreTabs (<<>> also when it returns early)*)
(***************************************************************************)
\* executeCustomRule's selection with the matching tabs grouped by base URL,
\* as the default rule groups them
customRuleTabsToClose_byBaseUrl(tabs, currentTabId, ruleRegex) ==
    findTabsToClose(
        SelectSeq(tabs, LAMBDA tab : regExpTest(ruleRegex, tab.url)), currentTabId)

\* executeCustomRule's selection without the pattern: every eligible tab but
\* the focused one
customRuleTabsToClose_allButFocused(tabs, currentTabId, ruleRegex) ==
    idsOfTabs(SelectSeq(filterSpecialUrls(tabs), LAMBDA tab : tab.id # currentTabId))

customRuleTabsToClose(tabs, currentTabId, ruleRegex) ==
    LET filteredTabs == filterSpecialUrls(tabs)
        matchingTabs ==
            SelectSeq(filteredTabs, LAMBDA tab : regExpTest(ruleRegex, tab.url))
        isActiveTabInMatches ==
            \E i \in 1..Len(matchingTabs) : matchingTabs[i].id = currentTabId
    IN IF Len(matchingTabs) = 0 THEN <<>>
       ELSE idsOfTabs(SelectSeq(matchingTabs,
                LAMBDA tab : ~(tab.id = currentTabId /\ isActiveTabInMatches)))

(***************************************************************************)
(* background.js: testCustomRule's matching tabs, whose ids it returns as  *)
(* matchingTabIds and whose number as matchCount                           *)
(***************************************************************************)
\* testCustomRule matching the pattern against every tab of the query
testCustomRuleMatches_noFilter(tabs, ruleRegex) ==
    idsOfTabs(SelectSeq(tabs, LAMBDA tab : regExpTest(ruleRegex, tab.url)))

testCustomRuleMatches(tabs, ruleRegex) ==
    LET filteredTabs == filterSpecialUrls(tabs)
        matchingTabs ==
            SelectSeq(filteredTabs, LAMBDA tab : regExpTest(ruleRegex, tab.url))
    IN idsOfTabs(matchingTabs)

(***************************************************************************)
(* State                                                                   *)
(***************************************************************************)
VARIABLES
    openTabs,      \* the browser's tabs, in tab-strip order
    activeId,      \* id of the active tab of the current window, or null
    nextTabId,     \* the id the browser gives the next tab it creates
    storageLocal,  \* chrome.storage.local: lastClosedTabs, closedTabsCount
    storageSync,   \* chrome.storage.sync: rules, the list of custom rules
    op,            \* the invocations of the service worker's listeners
    modal,         \* the popup: its rule form and the submission under way
    selTabs,       \* findTabsToClose on its own: the tabs argument
    selFocus,      \*   the currentTabId argument
    selClose,      \*   its result
    selAgain,      \*   its result on the tabs the first result leaves
    selRegex,      \* executeCustomRule's selection on its own: the pattern
    selCustom,     \*   its close-list
    selPc          \* "input", "found", "again", "matched"

sysVars == <<openTabs, activeId, nextTabId, storageLocal, storageSync, op, modal>>
selVars == <<selTabs, selFocus, selClose, selAgain, selRegex, selCustom, selPc>>
vars == <<openTabs, activeId, nextTabId, storageLocal, storageSync, op, modal,
          selTabs, selFocus, selClose, selAgain, selRegex, selCustom, selPc>>

\* the window the service worker's queries call "current", and another one
CurrentWindow == "current"
OtherWindow == "other"

\* URLs the user opens in the current window, and in the other one
OpenUrls == {UrlPage, UrlRoot}
OtherWindowUrls == {UrlPage}

\* the two listeners: chrome.commands.onCommand and chrome.runtime.onMessage
Procs == {"command", "popup"}

titleOf(url) == IF url.parses THEN url.host ELSE ""

MkTab(id, url, windowId) ==
    [id |-> id, url |-> url, title |-> titleOf(url), windowId |-> windowId]

IdleOp ==
    [kind |-> "none", pc |-> "idle", ruleRegex |-> "", tabs |-> <<>>,
     currentTabId |-> null, tabsToClose |-> <<>>, tabsToStore |-> <<>>,
     tabsToRestore |-> <<>>, created |-> <<>>,
     matchingTabIds |-> <<>>, matchCount |-> 0,
     i |-> 0, outcome |-> "none", response |-> "none"]

EmptyStorage == [has |-> FALSE, lastClosedTabs |-> <<>>, closedTabsCount |-> 0]

\* the popup as it loads: the modal hidden, no data-edit-id, the two inputs
\* empty, no submission under way; openedBy is the button that showed the
\* modal last and via the one that showed it for the submission under way,
\* alert the dialog on the screen, now the clock Date.now() reads
ModalClosed ==
    [display |-> "none", editId |-> "", ruleName |-> "", ruleRegex |-> "",
     openedBy |-> "none", pc |-> "idle", name |-> "", regex |-> "",
     via |-> "none", alert |-> "", now |-> 3]

Init ==
    /\ openTabs = <<>>
    /\ activeId = null
    /\ nextTabId = 1
    /\ storageLocal = EmptyStorage
    /\ storageSync = <<>>
    /\ op = [p \in Procs |-> IdleOp]
    /\ modal = ModalClosed
    /\ selTabs = <<>>
    /\ selFocus = null
    /\ selClose = <<>>
    /\ selAgain = <<>>
    /\ selRegex = ""
    /\ selCustom = <<>>
    /\ selPc = "input"

(***************************************************************************)
(* findTabsToClose on its own: every tab list of at most MaxTabs tabs with *)
(* pairwise distinct ids, in every order, and every currentTabId           *)
(***************************************************************************)
Orders(n) == {f \in [1..n -> 1..n] : \A i, j \in 1..n : f[i] = f[j] => i = j}

\* the argument lists draw their URLs from these
SelUrls == {UrlPage, UrlRoot, UrlRootQuery} \cup SpecialUrls

FocusIds == {null} \cup (1..(MaxTabs + 1))

SelectInit ==
    /\ openTabs = <<>>
    /\ activeId = null
    /\ nextTabId = 1
    /\ storageLocal = EmptyStorage
    /\ storageSync = <<>>
    /\ op = [p \in Procs |-> IdleOp]
    /\ modal = ModalClosed
    /\ \E n \in 0..MaxTabs :
         \E ids \in Orders(n), urls \in [1..n -> SelUrls] :
            selTabs = [i \in 1..n |-> MkTab(ids[i], urls[i], CurrentWindow)]
    /\ selFocus \in FocusIds
    /\ selClose = <<>>
    /\ selAgain = <<>>
    /\ selRegex = ""
    /\ selCustom = <<>>
    /\ selPc = "input"

\* the tabs a close-list leaves open
survivors(tabs, closeIds) ==
    SelectSeq(tabs, LAMBDA tab : tab.id \notin SeqToSet(closeIds))

ApplyFindTabsToClose ==
    /\ selPc = "input"
    /\ selClose' = findTabsToClose(selTabs, selFocus)
    /\ selPc' = "found"
    /\ UNCHANGED <<selTabs, selFocus, selAgain, selRegex, selCustom>>
    /\ UNCHANGED sysVars

ApplyFindTabsToCloseAgain ==
    /\ selPc = "found"
    /\ selAgain' = findTabsToClose(survivors(selTabs, selClose), selFocus)
    /\ selPc' = "again"
    /\ UNCHANGED <<selTabs, selFocus, selClose, selRegex, selCustom>>
    /\ UNCHANGED sysVars

ApplyCustomRule(ruleRegex) ==
    /\ selPc = "input"
    /\ regExpCompiles(ruleRegex)
    /\ selRegex' = ruleRegex
    /\ selCustom' = customRuleTabsToClose(selTabs, selFocus, ruleRegex)
    /\ selPc' = "matched"
    /\ UNCHANGED <<selTabs, selFocus, selClose, selAgain>>
    /\ UNCHANGED sysVars

SelectNext ==
    \/ ApplyFindTabsToClose
    \/ ApplyFindTabsToCloseAgain
    \/ \E ruleRegex \in RuleRegexes : ApplyCustomRule(ruleRegex)

SpecSelect == SelectInit /\ [][SelectNext]_vars

(***************************************************************************)
(* getBaseUrl as the grouping key: tab lists in tab-strip order over URLs  *)
(* that differ in path, query string and fragment, and strings that are no *)
(* absolute URL                                                            *)
(***************************************************************************)
KeyUrls ==
    {MkUrl("https", TRUE, "a.com", path, query, frag, TRUE) :
        path \in {"", "/p"}, query \in {"", "?x=1"}, frag \in {"", "#top"}}
    \cup {UrlRoot, UrlRootQuery, UrlMalformed, UrlRelative}

BaseUrlInit ==
    /\ openTabs = <<>>
    /\ activeId = null
    /\ nextTabId = 1
    /\ storageLocal = EmptyStorage
    /\ storageSync = <<>>
    /\ op = [p \in Procs |-> IdleOp]
    /\ modal = ModalClosed
    /\ \E n \in 0..MaxKeyTabs :
         \E urls \in [1..n -> KeyUrls] :
            selTabs = [i \in 1..n |-> MkTab(i, urls[i], CurrentWindow)]
    /\ selFocus \in {null} \cup (1..MaxKeyTabs)
    /\ selClose = <<>>
    /\ selAgain = <<>>
    /\ selRegex = ""
    /\ selCustom = <<>>
    /\ selPc = "input"

SpecBaseUrl == BaseUrlInit /\ [][SelectNext]_vars

(***************************************************************************)
(* The browser: the user opens, closes and activates tabs                  *)
(***************************************************************************)
windowTabs(tabs, windowId) == SelectSeq(tabs, LAMBDA tab : tab.windowId = windowId)
openIds == idSetOfSeq(openTabs)

\* the active tab of the current window once the tabs `closed` are gone: the
\* same tab if it stays, else any tab left in the window, null if none is
activeAfter(closed) ==
    LET left == idSetOfSeq(windowTabs(openTabs, CurrentWindow)) \ closed
    IN IF activeId \in left THEN {activeId}
       ELSE IF left = {} THEN {null} ELSE left

UserOpenTab(url, windowId, activate) ==
    /\ nextTabId <= MaxTabId
    /\ openTabs' = Append(openTabs, MkTab(nextTabId, url, windowId))
    /\ nextTabId' = nextTabId + 1
    /\ activeId' = IF windowId = CurrentWindow /\ (activate \/ activeId = null)
                   THEN nextTabId ELSE activeId
    /\ UNCHANGED <<storageLocal, op>>
    /\ UNCHANGED storageSync
    /\ UNCHANGED modal
    /\ UNCHANGED selVars

UserCloseTab(id) ==
    /\ id \in openIds
    /\ openTabs' = SelectSeq(openTabs, LAMBDA tab : tab.id # id)
    /\ activeId' \in activeAfter({id})
    /\ UNCHANGED <<nextTabId, storageLocal, op>>
    /\ UNCHANGED storageSync
    /\ UNCHANGED modal
    /\ UNCHANGED selVars

UserActivateTab(id) ==
    /\ id \in idSetOfSeq(windowTabs(openTabs, CurrentWindow))
    /\ id # activeId
    /\ activeId' = id
    /\ UNCHANGED <<openTabs, nextTabId, storageLocal, op>>
    /\ UNCHANGED storageSync
    /\ UNCHANGED modal
    /\ UNCHANGED selVars

(***************************************************************************)
(* background.js: the listeners and the steps of their handlers, one       *)
(* action per host call the handler awaits                                 *)
(***************************************************************************)
\* a listener starts its handler when no invocation is under way: this
\* specification runs the handlers one at a time, with the user's steps
\* between their awaits
free(p) == \A q \in Procs : op[q].pc = "idle"

\* chrome.commands.onCommand: 'close-duplicates-default'
OnCommand ==
    /\ free("command")
    /\ op' = [op EXCEPT !["command"] =
                [IdleOp EXCEPT !.kind = "closeDuplicates", !.pc = "queryTabs"]]
    /\ UNCHANGED <<openTabs, activeId, nextTabId, storageLocal>>
    /\ UNCHANGED storageSync
    /\ UNCHANGED modal
    /\ UNCHANGED selVars

\* chrome.runtime.onMessage: action 'executeCloseDuplicates'
OnMessageExecuteCloseDuplicates ==
    /\ free("popup")
    /\ op' = [op EXCEPT !["popup"] =
                [IdleOp EXCEPT !.kind = "closeDuplicates", !.pc = "queryTabs"]]
    /\ UNCHANGED <<openTabs, activeId, nextTabId, storageLocal>>
    /\ UNCHANGED storageSync
    /\ UNCHANGED modal
    /\ UNCHANGED selVars

\* chrome.runtime.onMessage: action 'executeCustomRule'
OnMessageExecuteCustomRule(ruleRegex) ==
    /\ free("popup")
    /\ op' = [op EXCEPT !["popup"] =
                [IdleOp EXCEPT !.kind = "customRule", !.pc = "queryTabs",
                               !.ruleRegex = ruleRegex]]
    /\ UNCHANGED <<openTabs, activeId, nextTabId, storageLocal>>
    /\ UNCHANGED storageSync
    /\ UNCHANGED modal
    /\ UNCHANGED selVars

\* the query without currentWindow: the tabs of every window
QueryTabs_allWindows(p) ==
    /\ op[p].pc = "queryTabs"
    /\ op' = [op EXCEPT ![p].tabs = openTabs,
                        ![p].pc = "queryActive"]
    /\ UNCHANGED <<openTabs, activeId, nextTabId, storageLocal>>
    /\ UNCHANGED storageSync
    /\ UNCHANGED modal
    /\ UNCHANGED selVars

\* getAllTabsAndCurrent: chrome.tabs.query({ currentWindow: true })
QueryTabs(p) ==
    /\ op[p].pc = "queryTabs"
    /\ op' = [op EXCEPT ![p].tabs = windowTabs(openTabs, CurrentWindow),
                        ![p].pc = "queryActive"]
    /\ UNCHANGED <<openTabs, activeId, nextTabId, storageLocal>>
    /\ UNCHANGED storageSync
    /\ UNCHANGED modal
    /\ UNCHANGED selVars

\* currentTab[0]?.id || null
currentTabIdOf(currentTab) ==
    IF Len(currentTab) = 0 \/ currentTab[1].id = 0 THEN null ELSE currentTab[1].id

\* the listener of executeCustomRule with a then and no catch
responseOf_noCatch(p, kind, outcome) ==
    IF p = "command" THEN "none"
    ELSE IF kind = "testRule"
    THEN (IF outcome = "fulfilled" THEN "result" ELSE "error")
    ELSE IF outcome = "fulfilled" THEN "success"
    ELSE "none"

\* what the sender of the message gets when the handler's promise settles:
\* the command listener answers nobody, testCustomRule answers with its
\* result or with { error }, executeCloseDuplicates and restoreLastClosed
\* have no catch
responseOf(p, kind, outcome) ==
    IF p = "command" THEN "none"
    ELSE IF kind = "testRule"
    THEN (IF outcome = "fulfilled" THEN "result" ELSE "error")
    ELSE IF outcome = "fulfilled" THEN "success"
    ELSE IF kind = "customRule" THEN "failure"
    ELSE "none"

\* closeAndStoreTabs going to chrome.tabs.remove at once, with no capture and
\* no storage write before it
enterCloseAndStore_removeFirst(o, tabIds) ==
    IF Len(tabIds) = 0
    THEN [o EXCEPT !.tabsToClose = tabIds, !.pc = "done", !.outcome = "fulfilled"]
    ELSE [o EXCEPT !.tabsToClose = tabIds, !.pc = "remove"]

\* closeAndStoreTabs without its return on an empty list: the loop makes no
\* turn and the write comes next
enterCloseAndStore_noEarlyReturn(o, tabIds) ==
    [o EXCEPT !.tabsToClose = tabIds,
              !.pc = IF Len(tabIds) = 0 THEN "set" ELSE "get",
              !.i = 1]

\* closeAndStoreTabs(tabIds) up to its first await; an empty list ends the
\* handler
enterCloseAndStore(o, tabIds) ==
    IF Len(tabIds) = 0
    THEN [o EXCEPT !.tabsToClose = tabIds, !.pc = "done", !.outcome = "fulfilled"]
    ELSE [o EXCEPT !.tabsToClose = tabIds, !.pc = "get", !.i = 1]

\* getAllTabsAndCurrent: chrome.tabs.query({ active: true, currentWindow: true }),
\* then the handler up to its next await: the selection and the call of
\* closeAndStoreTabs, or testCustomRule to its return
QueryActive(p) ==
    /\ op[p].pc = "queryActive"
    /\ LET currentTab ==
               SelectSeq(windowTabs(openTabs, CurrentWindow),
                         LAMBDA tab : tab.id = activeId)
           o == [op[p] EXCEPT !.currentTabId = currentTabIdOf(currentTab)]
       IN op' = [op EXCEPT ![p] =
             IF o.kind = "closeDuplicates"
             THEN enterCloseAndStore(o, findTabsToClose(o.tabs, o.currentTabId))
             ELSE IF ~regExpCompiles(o.ruleRegex)
             THEN [o EXCEPT !.pc = "done", !.outcome = "rejected"]
             ELSE IF o.kind = "testRule"
             THEN [o EXCEPT !.matchingTabIds = testCustomRuleMatches(o.tabs, o.ruleRegex),
                            !.matchCount = Len(testCustomRuleMatches(o.tabs, o.ruleRegex)),
                            !.pc = "done", !.outcome = "fulfilled"]
             ELSE enterCloseAndStore(o,
                      customRuleTabsToClose(o.tabs, o.currentTabId, o.ruleRegex))]
    /\ UNCHANGED <<openTabs, activeId, nextTabId, storageLocal>>
    /\ UNCHANGED storageSync
    /\ UNCHANGED modal
    /\ UNCHANGED selVars

\* the loop without its try/catch: a chrome.tabs.get that rejects ends the
\* handler
GetTab_noCatch(p) ==
    /\ op[p].pc = "get"
    /\ LET tabId == op[p].tabsToClose[op[p].i]
           found == SelectSeq(openTabs, LAMBDA tab : tab.id = tabId)
       IN op' = [op EXCEPT ![p] =
             IF Len(found) = 0
             THEN [op[p] EXCEPT !.pc = "done", !.outcome = "rejected"]
             ELSE [op[p] EXCEPT
                     !.tabsToStore = Append(@, [id |-> found[1].id, url |-> found[1].url,
                                                title |-> found[1].title]),
                     !.i = @ + 1,
                     !.pc = IF op[p].i = Len(op[p].tabsToClose) THEN "set" ELSE "get"]]
    /\ UNCHANGED <<openTabs, activeId, nextTabId, storageLocal>>
    /\ UNCHANGED storageSync
    /\ UNCHANGED modal
    /\ UNCHANGED selVars

\* the loop keeping the last snapshot only: tabsToStore = [tab] for push
GetTab_lastOnly(p) ==
    /\ op[p].pc = "get"
    /\ LET tabId == op[p].tabsToClose[op[p].i]
           found == SelectSeq(openTabs, LAMBDA tab : tab.id = tabId)
           stored == IF Len(found) = 0 THEN op[p].tabsToStore
                     ELSE <<[id |-> found[1].id, url |-> found[1].url,
                             title |-> found[1].title]>>
       IN op' = [op EXCEPT ![p].tabsToStore = stored,
                           ![p].i = @ + 1,
                           ![p].pc = IF op[p].i = Len(op[p].tabsToClose)
                                     THEN "set" ELSE "get"]
    /\ UNCHANGED <<openTabs, activeId, nextTabId, storageLocal>>
    /\ UNCHANGED storageSync
    /\ UNCHANGED modal
    /\ UNCHANGED selVars

\* closeAndStoreTabs: one turn of the loop, chrome.tabs.get(tabId)
GetTab(p) ==
    /\ op[p].pc = "get"
    /\ LET tabId == op[p].tabsToClose[op[p].i]
           found == SelectSeq(openTabs, LAMBDA tab : tab.id = tabId)
           stored == IF Len(found) = 0 THEN op[p].tabsToStore
                     ELSE Append(op[p].tabsToStore,
                                 [id |-> found[1].id, url |-> found[1].url,
                                  title |-> found[1].title])
       IN op' = [op EXCEPT ![p].tabsToStore = stored,
                           ![p].i = @ + 1,
                           ![p].pc = IF op[p].i = Len(op[p].tabsToClose)
                                     THEN "set" ELSE "get"]
    /\ UNCHANGED <<openTabs, activeId, nextTabId, storageLocal>>
    /\ UNCHANGED storageSync
    /\ UNCHANGED modal
    /\ UNCHANGED selVars

\* the write with the new snapshots added to the stored ones
StorageSet_append(p) ==
    /\ op[p].pc = "set"
    /\ storageLocal' = [has |-> TRUE,
                        lastClosedTabs |-> storageLocal.lastClosedTabs \o op[p].tabsToStore,
                        closedTabsCount |-> Len(op[p].tabsToClose)]
    /\ op' = [op EXCEPT ![p].pc = "remove"]
    /\ UNCHANGED <<openTabs, activeId, nextTabId>>
    /\ UNCHANGED storageSync
    /\ UNCHANGED modal
    /\ UNCHANGED selVars

\* closeAndStoreTabs: chrome.storage.local.set
StorageSet(p) ==
    /\ op[p].pc = "set"
    /\ storageLocal' = [has |-> TRUE, lastClosedTabs |-> op[p].tabsToStore,
                        closedTabsCount |-> Len(op[p].tabsToClose)]
    /\ op' = [op EXCEPT ![p].pc = "remove"]
    /\ UNCHANGED <<openTabs, activeId, nextTabId>>
    /\ UNCHANGED storageSync
    /\ UNCHANGED modal
    /\ UNCHANGED selVars

\* the ids chrome.tabs.remove closes: it takes them in order and stops with
\* an error at the first id that is no open tab
RECURSIVE removable(_, _)
removable(tabIdSeq, open) ==
    IF tabIdSeq = <<>> \/ Head(tabIdSeq) \notin open THEN <<>>
    ELSE <<Head(tabIdSeq)>> \o removable(Tail(tabIdSeq), open)

\* closeAndStoreTabs: chrome.tabs.remove(tabIds), and the handler's end
RemoveTabs(p) ==
    /\ op[p].pc = "remove"
    /\ LET removed == removable(op[p].tabsToClose, openIds)
           outcome == IF Len(removed) = Len(op[p].tabsToClose)
                      THEN "fulfilled" ELSE "rejected"
       IN /\ openTabs' = SelectSeq(openTabs, LAMBDA tab : tab.id \notin SeqToSet(removed))
          /\ activeId' \in activeAfter(SeqToSet(removed))
          /\ op' = [op EXCEPT ![p].pc = "done", ![p].outcome = outcome]
    /\ UNCHANGED <<nextTabId, storageLocal>>
    /\ UNCHANGED storageSync
    /\ UNCHANGED modal
    /\ UNCHANGED selVars

\* the handler's promise settles: the listener's then/catch callback answers
\* the sender, and the invocation is over
Settle(p) ==
    /\ op[p].pc = "done"
    /\ op' = [op EXCEPT ![p] =
                [IdleOp EXCEPT !.response = responseOf(p, op[p].kind, op[p].outcome)]]
    /\ UNCHANGED <<openTabs, activeId, nextTabId, storageLocal>>
    /\ UNCHANGED storageSync
    /\ UNCHANGED modal
    /\ UNCHANGED selVars

Next ==
    \/ \E url \in OpenUrls, activate \in BOOLEAN :
          UserOpenTab(url, CurrentWindow, activate)
    \/ \E url \in OtherWindowUrls : UserOpenTab(url, OtherWindow, FALSE)
    \/ \E id \in 1..MaxTabId : UserCloseTab(id)
    \/ \E id \in 1..MaxTabId : UserActivateTab(id)
    \/ OnCommand
    \/ OnMessageExecuteCloseDuplicates
    \/ \E ruleRegex \in RuleRegexes : OnMessageExecuteCustomRule(ruleRegex)
    \/ \E p \in Procs : QueryTabs(p)
    \/ \E p \in Procs : QueryActive(p)
    \/ \E p \in Procs : GetTab(p)
    \/ \E p \in Procs : StorageSet(p)
    \/ \E p \in Procs : RemoveTabs(p)
    \/ \E p \in Procs : Settle(p)

Spec == Init /\ [][Next]_vars

(***************************************************************************)
(* background.js: restoreLastClosedTabs, and the listeners without the     *)
(* one-at-a-time rule: the keyboard command starts executeCloseDuplicates  *)
(* and the popup's message starts restoreLastClosedTabs while the other    *)
(* handler is between two of its awaits                                    *)
(***************************************************************************)
\* chrome.commands.onCommand: 'close-duplicates-default', whatever the
\* popup's handler is doing
StartCloseDuplicates ==
    /\ op["command"].pc = "idle"
    /\ op' = [op EXCEPT !["command"] =
                [IdleOp EXCEPT !.kind = "closeDuplicates", !.pc = "queryTabs"]]
    /\ UNCHANGED <<openTabs, activeId, nextTabId, storageLocal>>
    /\ UNCHANGED storageSync
    /\ UNCHANGED modal
    /\ UNCHANGED selVars

\* chrome.runtime.onMessage: action 'restoreLastClosed', whatever the
\* command's handler is doing; no restore starts once the browser has handed
\* out more than MaxTabId ids
StartRestore ==
    /\ op["popup"].pc = "idle"
    /\ nextTabId <= MaxTabId + 1
    /\ op' = [op EXCEPT !["popup"] =
                [IdleOp EXCEPT !.kind = "restore", !.pc = "storageGet"]]
    /\ UNCHANGED <<openTabs, activeId, nextTabId, storageLocal>>
    /\ UNCHANGED storageSync
    /\ UNCHANGED modal
    /\ UNCHANGED selVars

\* restoreLastClosedTabs throwing when there is nothing to restore
RestoreGet_throwOnEmpty(p) ==
    /\ op[p].pc = "storageGet"
    /\ LET tabsToRestore ==
               IF storageLocal.has THEN storageLocal.lastClosedTabs ELSE <<>>
       IN op' = [op EXCEPT ![p].tabsToRestore = tabsToRestore,
                           ![p].i = 1,
                           ![p].pc = IF Len(tabsToRestore) = 0 THEN "done" ELSE "create",
                           ![p].outcome = IF Len(tabsToRestore) = 0
                                          THEN "rejected" ELSE "none"]
    /\ UNCHANGED <<openTabs, activeId, nextTabId, storageLocal>>
    /\ UNCHANGED storageSync
    /\ UNCHANGED modal
    /\ UNCHANGED selVars

\* restoreLastClosedTabs: chrome.storage.local.get(['lastClosedTabs']),
\* data.lastClosedTabs || [], and the return on an empty list
RestoreGet(p) ==
    /\ op[p].pc = "storageGet"
    /\ LET tabsToRestore ==
               IF storageLocal.has THEN storageLocal.lastClosedTabs ELSE <<>>
       IN op' = [op EXCEPT ![p].tabsToRestore = tabsToRestore,
                           ![p].i = 1,
                           ![p].pc = IF Len(tabsToRestore) = 0 THEN "done" ELSE "create",
                           ![p].outcome = IF Len(tabsToRestore) = 0
                                          THEN "fulfilled" ELSE "none"]
    /\ UNCHANGED <<openTabs, activeId, nextTabId, storageLocal>>
    /\ UNCHANGED storageSync
    /\ UNCHANGED modal
    /\ UNCHANGED selVars

\* the loop with the history cleared at its first turn
RestoreCreate_clearFirst(p) ==
    /\ op[p].pc = "create"
    /\ LET tab == op[p].tabsToRestore[op[p].i]
       IN /\ openTabs' = Append(openTabs, MkTab(nextTabId, tab.url, CurrentWindow))
          /\ op' = [op EXCEPT ![p].created = Append(@, tab.url),
                              ![p].i = @ + 1,
                              ![p].pc = IF op[p].i = Len(op[p].tabsToRestore)
                                        THEN "storageRemove" ELSE "create"]
    /\ activeId' = nextTabId
    /\ nextTabId' = nextTabId + 1
    /\ storageLocal' = EmptyStorage
    /\ UNCHANGED storageSync
    /\ UNCHANGED modal
    /\ UNCHANGED selVars

\* restoreLastClosedTabs: one turn of the loop, chrome.tabs.create({ url });
\* the new tab goes to the end of the current window and becomes its active
\* tab
RestoreCreate(p) ==
    /\ op[p].pc = "create"
    /\ LET tab == op[p].tabsToRestore[op[p].i]
       IN /\ openTabs' = Append(openTabs, MkTab(nextTabId, tab.url, CurrentWindow))
          /\ op' = [op EXCEPT ![p].created = Append(@, tab.url),
                              ![p].i = @ + 1,
                              ![p].pc = IF op[p].i = Len(op[p].tabsToRestore)
                                        THEN "storageRemove" ELSE "create"]
    /\ activeId' = nextTabId
    /\ nextTabId' = nextTabId + 1
    /\ UNCHANGED storageLocal
    /\ UNCHANGED storageSync
    /\ UNCHANGED modal
    /\ UNCHANGED selVars

\* restoreLastClosedTabs:
\* chrome.storage.local.remove(['lastClosedTabs', 'closedTabsCount'])
RestoreClear(p) ==
    /\ op[p].pc = "storageRemove"
    /\ storageLocal' = EmptyStorage
    /\ op' = [op EXCEPT ![p].pc = "done", ![p].outcome = "fulfilled"]
    /\ UNCHANGED <<openTabs, activeId, nextTabId>>
    /\ UNCHANGED storageSync
    /\ UNCHANGED modal
    /\ UNCHANGED selVars

BatchNext ==
    \/ \E url \in OpenUrls : UserOpenTab(url, CurrentWindow, TRUE)
    \/ \E id \in 1..MaxTabId : UserCloseTab(id)
    \/ StartCloseDuplicates
    \/ StartRestore
    \/ \E p \in Procs : QueryTabs(p)
    \/ \E p \in Procs : QueryActive(p)
    \/ \E p \in Procs : GetTab(p)
    \/ \E p \in Procs : StorageSet(p)
    \/ \E p \in Procs : RemoveTabs(p)
    \/ \E p \in Procs : RestoreGet(p)
    \/ \E p \in Procs : RestoreCreate(p)
    \/ \E p \in Procs : RestoreClear(p)
    \/ \E p \in Procs : Settle(p)

SpecBatch == Init /\ [][BatchNext]_vars

(***************************************************************************)
(* background.js and popup.js: the close handlers of the keyboard command  *)
(* and of the custom rules, one at a time, while chrome.storage.sync holds *)
(* rules saved by earlier sessions of the popup, which the popup deletes   *)
(***************************************************************************)
RuleA == [id |-> "custom-1", name |-> "A", regex |-> "a\\.com"]
RuleB == [id |-> "custom-2", name |-> "B", regex |-> "^https"]

\* what chrome.storage.sync holds when the service worker starts
StoredRuleSets == {<<>>, <<RuleA>>, <<RuleA, RuleB>>}

RuleInit ==
    /\ openTabs = <<>>
    /\ activeId = null
    /\ nextTabId = 1
    /\ storageLocal = EmptyStorage
    /\ storageSync \in StoredRuleSets
    /\ op = [p \in Procs |-> IdleOp]
    /\ modal = ModalClosed
    /\ selTabs = <<>>
    /\ selFocus = null
    /\ selClose = <<>>
    /\ selAgain = <<>>
    /\ selRegex = ""
    /\ selCustom = <<>>
    /\ selPc = "input"

\* popup.js deleteRule(ruleId), confirmed by the user
PopupDeleteRule(ruleId) ==
    /\ \E i \in 1..Len(storageSync) : storageSync[i].id = ruleId
    /\ storageSync' = SelectSeq(storageSync, LAMBDA r : r.id # ruleId)
    /\ UNCHANGED <<openTabs, activeId, nextTabId, storageLocal, op>>
    /\ UNCHANGED modal
    /\ UNCHANGED selVars

RuleNext ==
    \/ \E url \in OpenUrls : UserOpenTab(url, CurrentWindow, TRUE)
    \/ \E id \in 1..MaxTabId : UserCloseTab(id)
    \/ OnCommand
    \/ \E ruleRegex \in RuleRegexes : OnMessageExecuteCustomRule(ruleRegex)
    \/ \E ruleId \in {RuleA.id, RuleB.id} : PopupDeleteRule(ruleId)
    \/ \E p \in Procs : QueryTabs(p)
    \/ \E p \in Procs : QueryActive(p)
    \/ \E p \in Procs : GetTab(p)
    \/ \E p \in Procs : StorageSet(p)
    \/ \E p \in Procs : RemoveTabs(p)
    \/ \E p \in Procs : Settle(p)

SpecRule == RuleInit /\ [][RuleNext]_vars

(***************************************************************************)
(* background.js: the handlers of the keyboard command and of the popup's  *)
(* testCustomRule and restoreLastClosed messages, one at a time, with      *)
(* rules stored; between two invocations the browser may stop the service  *)
(* worker and start it again                                               *)
(***************************************************************************)
\* URLs the user opens in the current window: two pages and a browser page
WorkerUrls == {UrlPage, UrlRoot, UrlChrome}

\* the patterns the popup's test button sends
TestRegexes == {"a\\.com", "settings|b\\.com", "[invalid(regex"}

\* the service worker starts with one rule saved by an earlier session of
\* the popup
WorkerInit ==
    /\ openTabs = <<>>
    /\ activeId = null
    /\ nextTabId = 1
    /\ storageLocal = EmptyStorage
    /\ storageSync = <<RuleA>>
    /\ op = [p \in Procs |-> IdleOp]
    /\ modal = ModalClosed
    /\ selTabs = <<>>
    /\ selFocus = null
    /\ selClose = <<>>
    /\ selAgain = <<>>
    /\ selRegex = ""
    /\ selCustom = <<>>
    /\ selPc = "input"

\* chrome.runtime.onMessage: action 'testCustomRule'
OnMessageTestCustomRule(ruleRegex) ==
    /\ free("popup")
    /\ op' = [op EXCEPT !["popup"] =
                [IdleOp EXCEPT !.kind = "testRule", !.pc = "queryTabs",
                               !.ruleRegex = ruleRegex]]
    /\ UNCHANGED <<openTabs, activeId, nextTabId, storageLocal>>
    /\ UNCHANGED storageSync
    /\ UNCHANGED modal
    /\ UNCHANGED selVars

\* chrome.runtime.onMessage: action 'restoreLastClosed', when no invocation
\* is under way; no restore starts once the browser has handed out more than
\* MaxTabId ids
OnMessageRestoreLastClosed ==
    /\ free("popup")
    /\ nextTabId <= MaxTabId + 1
    /\ op' = [op EXCEPT !["popup"] =
                [IdleOp EXCEPT !.kind = "restore", !.pc = "storageGet"]]
    /\ UNCHANGED <<openTabs, activeId, nextTabId, storageLocal>>
    /\ UNCHANGED storageSync
    /\ UNCHANGED modal
    /\ UNCHANGED selVars

\* the service worker goes through a restart with chrome.storage.local as
\* session memory, which a restart empties
Restart_sessionStorage ==
    /\ \A p \in Procs : op[p].pc = "idle"
    /\ op' = [p \in Procs |-> IdleOp]
    /\ storageLocal' = EmptyStorage
    /\ UNCHANGED <<openTabs, activeId, nextTabId>>
    /\ UNCHANGED storageSync
    /\ UNCHANGED modal
    /\ UNCHANGED selVars

\* the browser stops the idle service worker and starts it again: the script
\* has no variable outside its functions, so all that goes is what the
\* listeners' invocations held; the popup that got the last answer is closed
Restart ==
    /\ \A p \in Procs : op[p].pc = "idle"
    /\ op' = [p \in Procs |-> IdleOp]
    /\ UNCHANGED <<openTabs, activeId, nextTabId, storageLocal>>
    /\ UNCHANGED storageSync
    /\ UNCHANGED modal
    /\ UNCHANGED selVars

WorkerNext ==
    \/ \E url \in WorkerUrls : UserOpenTab(url, CurrentWindow, TRUE)
    \/ \E id \in 1..MaxTabId : UserCloseTab(id)
    \/ OnCommand
    \/ \E ruleRegex \in TestRegexes : OnMessageTestCustomRule(ruleRegex)
    \/ OnMessageRestoreLastClosed
    \/ PopupDeleteRule(RuleA.id)
    \/ Restart
    \/ \E p \in Procs : QueryTabs(p)
    \/ \E p \in Procs : QueryActive(p)
    \/ \E p \in Procs : GetTab(p)
    \/ \E p \in Procs : StorageSet(p)
    \/ \E p \in Procs : RemoveTabs(p)
    \/ \E p \in Procs : RestoreGet(p)
    \/ \E p \in Procs : RestoreCreate(p)
    \/ \E p \in Procs : RestoreClear(p)
    \/ \E p \in Procs : Settle(p)

SpecWorker == WorkerInit /\ [][WorkerNext]_vars

(***************************************************************************)
(* background.js: default-rule triggers that overlap. The keyboard command *)
(* and the popup's executeCloseDuplicates message each start a handler     *)
(* whatever the other is doing; the browser has tabs open from the start,  *)
(* and the user only switches between them                                 *)
(***************************************************************************)
OverlapInit ==
    /\ \E n \in 1..MaxTabId :
         \E urls \in [1..n -> OpenUrls] :
            /\ openTabs = [i \in 1..n |-> MkTab(i, urls[i], CurrentWindow)]
            /\ activeId \in 1..n
            /\ nextTabId = n + 1
    /\ storageLocal = EmptyStorage
    /\ storageSync = <<>>
    /\ op = [p \in Procs |-> IdleOp]
    /\ modal = ModalClosed
    /\ selTabs = <<>>
    /\ selFocus = null
    /\ selClose = <<>>
    /\ selAgain = <<>>
    /\ selRegex = ""
    /\ selCustom = <<>>
    /\ selPc = "input"

\* chrome.runtime.onMessage: action 'executeCloseDuplicates', whatever the
\* command's handler is doing
StartExecuteCloseDuplicates ==
    /\ op["popup"].pc = "idle"
    /\ op' = [op EXCEPT !["popup"] =
                [IdleOp EXCEPT !.kind = "closeDuplicates", !.pc = "queryTabs"]]
    /\ UNCHANGED <<openTabs, activeId, nextTabId, storageLocal>>
    /\ UNCHANGED storageSync
    /\ UNCHANGED modal
    /\ UNCHANGED selVars

OverlapNext ==
    \/ \E id \in 1..MaxTabId : UserActivateTab(id)
    \/ StartCloseDuplicates
    \/ StartExecuteCloseDuplicates
    \/ \E p \in Procs : QueryTabs(p)
    \/ \E p \in Procs : QueryActive(p)
    \/ \E p \in Procs : GetTab(p)
    \/ \E p \in Procs : StorageSet(p)
    \/ \E p \in Procs : RemoveTabs(p)
    \/ \E p \in Procs : Settle(p)

SpecOverlap == OverlapInit /\ [][OverlapNext]_vars

(***************************************************************************)
(* Properties of findTabsToClose                                           *)
(***************************************************************************)
\* the eligible tabs of a list, and those of them with a given base URL
eligibleTabs(tabs) == {tab \in SeqToSet(tabs) : ~isSpecialUrl(tab.url)}
baseUrlGroup(tabs, key) == {tab \in eligibleTabs(tabs) : getBaseUrl(tab.url) = key}
baseUrlKeys(tabs) == {getBaseUrl(tab.url) : tab \in eligibleTabs(tabs)}
idSet(tabSet) == {tab.id : tab \in tabSet}
maxId(ids) == CHOOSE m \in ids : \A x \in ids : x <= m
\* the position of a tab id in a list
indexOfId(tabs, id) == CHOOSE i \in 1..Len(tabs) : tabs[i].id = id

\* C1: for tabs with pairwise distinct ids and any focused id, the list
\* findTabsToClose returns never contains the focused id.
C1_FocusedNeverReturned ==
    selPc \in {"found", "again"} => selFocus \notin SeqToSet(selClose)

\* a focused tab that is the oldest of three duplicates, the other two returned
C1_Witness ==
    /\ selPc = "found"
    /\ Len(selClose) = 2
    /\ selFocus \in idSet(eligibleTabs(selTabs))
    /\ \A id \in SeqToSet(selClose) : id > selFocus

\* C2: from a base-URL group of at least 2 eligible tabs that contains the
\* focused tab, exactly the members other than the focused tab are closed,
\* also when the focused tab does not have the highest id of the group.
C2_FocusedGroupClosesOthers ==
    selPc \in {"found", "again"} =>
        \A key \in baseUrlKeys(selTabs) :
            LET members == idSet(baseUrlGroup(selTabs, key))
            IN (Cardinality(members) >= 2 /\ selFocus \in members) =>
                  SeqToSet(selClose) \cap members = members \ {selFocus}

\* a group of two with the focused tab the older one, the newer one closed
C2_Witness ==
    /\ selPc = "found"
    /\ \E key \in baseUrlKeys(selTabs) :
          LET members == idSet(baseUrlGroup(selTabs, key))
          IN /\ Cardinality(members) >= 2
             /\ selFocus \in members
             /\ selFocus # maxId(members)
             /\ maxId(members) \in SeqToSet(selClose)

\* C3: from a base-URL group of at least 2 eligible tabs that does not
\* contain the focused tab, exactly the members other than the one with the
\* highest id are closed, whatever the order of the tabs in the list.
C3_OtherGroupKeepsNewest ==
    selPc \in {"found", "again"} =>
        \A key \in baseUrlKeys(selTabs) :
            LET members == idSet(baseUrlGroup(selTabs, key))
            IN (Cardinality(members) >= 2 /\ selFocus \notin members) =>
                  SeqToSet(selClose) \cap members = members \ {maxId(members)}

\* a group without the focused tab whose newest tab comes first in the list
C3_Witness ==
    /\ selPc = "found"
    /\ \E key \in baseUrlKeys(selTabs) :
          LET members == idSet(baseUrlGroup(selTabs, key))
          IN /\ Cardinality(members) >= 2
             /\ selFocus \notin members
             /\ \E id \in members :
                   indexOfId(selTabs, maxId(members)) < indexOfId(selTabs, id)
             /\ SeqToSet(selClose) \cap members # {}

\* C4: findTabsToClose never returns a tab that is alone in its base-URL
\* group, and returns the empty list when no two eligible tabs share a base
\* URL (the empty and the single-tab list included).
C4_SingletonNeverClosed ==
    selPc \in {"found", "again"} =>
        /\ \A key \in baseUrlKeys(selTabs) :
              LET members == idSet(baseUrlGroup(selTabs, key))
              IN Cardinality(members) = 1 => SeqToSet(selClose) \cap members = {}
        /\ (\A key \in baseUrlKeys(selTabs) :
               Cardinality(baseUrlGroup(selTabs, key)) = 1) => selClose = <<>>

\* a tab alone in its group left open next to a group of two that loses a tab
C4_Witness ==
    /\ selPc = "found"
    /\ selClose # <<>>
    /\ \E key \in baseUrlKeys(selTabs) :
          /\ Cardinality(baseUrlGroup(selTabs, key)) = 1
          /\ idSet(baseUrlGroup(selTabs, key)) \cap SeqToSet(selClose) = {}

\* C10: findTabsToClose on the tabs a first run leaves (the list minus the
\* first close-list, same focused id) returns the empty list.
C10_Idempotent ==
    selPc = "again" => selAgain = <<>>

\* a second run after a first one that closed two tabs of a group of three
C10_Witness ==
    /\ selPc = "again"
    /\ Len(selClose) = 2
    /\ Len(survivors(selTabs, selClose)) = 1

\* the tabs of a list that show one of the browser's own pages
specialTabs(tabs) == {tab \in SeqToSet(tabs) : tab.url \in SpecialUrls}
withoutSpecialTabs(tabs) == SelectSeq(tabs, LAMBDA tab : tab.url \notin SpecialUrls)

\* C8: a tab whose URL starts with chrome://, about:, chrome-extension:// or
\* edge:// is in no close-list of the default rule or of a custom rule, and
\* taking these tabs out of the list leaves the close-list as it is (they
\* hold no keep slot and neither cause nor prevent the closing of a tab).
C8_SpecialTabsUntouched ==
    /\ selPc \in {"found", "again"} =>
          /\ idSet(specialTabs(selTabs)) \cap SeqToSet(selClose) = {}
          /\ selClose = findTabsToClose(withoutSpecialTabs(selTabs), selFocus)
    /\ selPc = "matched" =>
          /\ idSet(specialTabs(selTabs)) \cap SeqToSet(selCustom) = {}
          /\ selCustom =
                customRuleTabsToClose(withoutSpecialTabs(selTabs), selFocus, selRegex)

\* two tabs on the same special URL that the pattern matches, the newer one
\* focused, and a regular tab closed by the rule
C8_Witness ==
    /\ selPc = "matched"
    /\ selCustom # <<>>
    /\ \E t1, t2 \in specialTabs(selTabs) :
          /\ t1.id < t2.id
          /\ t1.url = t2.url
          /\ regExpTest(selRegex, t1.url)
          /\ selFocus = t2.id

(***************************************************************************)
(* Properties of getBaseUrl                                                *)
(***************************************************************************)
\* two strings that new URL accepts and that differ at most in what follows
\* the path
sameUpToPath(u1, u2) ==
    /\ u1.parses /\ u2.parses
    /\ u1.scheme = u2.scheme /\ u1.slashes = u2.slashes
    /\ u1.host = u2.host /\ u1.path = u2.path

\* the groups the default rule forms of the tabs of the list
groupsOf(tabs) == groupTabsByBaseUrl(filterSpecialUrls(tabs))
sameGroup(groups, t1, t2) ==
    \E g \in SeqToSet(groups) : {t1, t2} \subseteq SeqToSet(g.tabs)

C12_MalformedKeyIsInput ==
    /\ \A t \in SeqToSet(selTabs) : ~t.url.parses => getBaseUrl(t.url) = t.url
    /\ LET groups == groupsOf(selTabs)
       IN \A t1, t2 \in SeqToSet(selTabs) :
             (~t1.url.parses /\ sameGroup(groups, t1, t2)) => t1.url = t2.url
    /\ selPc \in {"found", "again"} =>
          \A t1 \in SeqToSet(selTabs) :
              (~t1.url.parses /\ t1.id \in SeqToSet(selClose)) =>
                  \E t2 \in SeqToSet(selTabs) :
                      /\ t2.id \notin SeqToSet(selClose)
                      /\ t2.url = t1.url

\* three tabs whose URLs do not parse, two of them on the same string: one of
\* these two is closed, the tab on the other string stays
C12_Witness ==
    /\ selPc = "found"
    /\ Len(selTabs) = 3
    /\ \A t \in SeqToSet(selTabs) : ~t.url.parses
    /\ Len(selClose) = 1
    /\ \E t1, t2 \in SeqToSet(selTabs) :
          /\ t1.url # t2.url
          /\ t1.id \notin SeqToSet(selClose)
          /\ t2.id \notin SeqToSet(selClose)

(***************************************************************************)
(* Properties of the handlers                                              *)
(***************************************************************************)
\* an executeCustomRule whose pattern compiled and whose selection is made
customSelected(p) ==
    /\ op[p].kind = "customRule"
    /\ regExpCompiles(op[p].ruleRegex)
    /\ op[p].pc \in {"get", "set", "remove", "done"}

\* the ids of the eligible tabs of p's snapshot that its pattern matches
matchingIds(p) ==
    {tab.id : tab \in {t \in eligibleTabs(op[p].tabs) : regExpTest(op[p].ruleRegex, t.url)}}

closeSet(p) == SeqToSet(op[p].tabsToClose)

C6_CustomKeepsNewest ==
    \A p \in Procs :
        (customSelected(p) /\ matchingIds(p) # {}
            /\ op[p].currentTabId \notin matchingIds(p)) =>
            closeSet(p) = matchingIds(p) \ {maxId(matchingIds(p))}

\* C7: when fewer than 2 eligible tabs match the pattern, executeCustomRule
\* closes no tab, whether or not the one matching tab is the focused one.
C7_CustomNeedsTwoMatches ==
    \A p \in Procs :
        (customSelected(p) /\ Cardinality(matchingIds(p)) < 2) =>
            op[p].tabsToClose = <<>>

\* C9: after a default-rule trigger whose close-list is deleted in full,
\* each base-URL group with an eligible tab in the snapshot has exactly one
\* tab of the snapshot outside the close-list, and no tab of the close-list
\* is open.
C9_OneSurvivorPerGroup ==
    \A p \in Procs :
        (op[p].kind = "closeDuplicates" /\ op[p].pc = "done"
            /\ op[p].outcome = "fulfilled") =>
            /\ \A key \in baseUrlKeys(op[p].tabs) :
                  Cardinality(idSet(baseUrlGroup(op[p].tabs, key)) \ closeSet(p)) = 1
            /\ closeSet(p) \cap openIds = {}

\* a finished trigger that closed two of three duplicates: the third one is
\* the only tab left open
C9_Witness ==
    \E p \in Procs :
        /\ op[p].kind = "closeDuplicates"
        /\ op[p].pc = "done"
        /\ op[p].outcome = "fulfilled"
        /\ Cardinality(closeSet(p)) = 2
        /\ Len(openTabs) = 1
        /\ openIds \subseteq idSetOfSeq(op[p].tabs)

(***************************************************************************)
(* Properties of closeAndStoreTabs                                         *)
(***************************************************************************)
\* a handler's step from one of its awaits to the next
stepFrom(p, pc) == op[p].pc = pc /\ op'[p] # op[p]

\* the ids of the tabs a step deletes
deletedIds == openIds \ idSetOfSeq(openTabs')

\* the batch a handler has captured, as chrome.storage.local holds it
captured(p) == op[p].i = Len(op[p].tabsToClose) + 1
persisted(p) ==
    /\ storageLocal.has
    /\ storageLocal.lastClosedTabs = op[p].tabsToStore

\* C13: a close operation with a non-empty close-list writes the batch to
\* storage only after the capture of every id, and asks for the deletion only
\* after that write: no step of the operation before chrome.tabs.remove
\* deletes a tab, and at chrome.tabs.remove the storage holds the batch.
C13_PersistBeforeDelete ==
    /\ [](\A p \in Procs :
            /\ op[p].pc = "set" => captured(p)
            /\ op[p].pc = "remove" => (captured(p) /\ persisted(p)))
    /\ [][\A p \in Procs :
            /\ (stepFrom(p, "queryTabs") \/ stepFrom(p, "queryActive")
                    \/ stepFrom(p, "get") \/ stepFrom(p, "set")) =>
                  deletedIds = {}
            /\ (stepFrom(p, "remove") /\ deletedIds # {}) => persisted(p)]_vars

\* an operation that captured two tabs, stored them and deleted both
C13_Witness ==
    \E p \in Procs :
        /\ op[p].pc = "done"
        /\ op[p].outcome = "fulfilled"
        /\ Len(op[p].tabsToClose) = 2
        /\ idsOfTabs(op[p].tabsToStore) = op[p].tabsToClose
        /\ persisted(p)
        /\ closeSet(p) \cap openIds = {}

\* C14: whenever a batch is stored, closedTabsCount is the number of
\* snapshots in lastClosedTabs, also when an id of the close-list resolved to
\* no tab at capture.
C14_CountIsNumberOfSnapshots ==
    storageLocal.has =>
        storageLocal.closedTabsCount = Len(storageLocal.lastClosedTabs)

\* the ids of a sequence of snapshots are a subsequence of a list of ids
RECURSIVE isSubsequence(_, _)
isSubsequence(sub, seq) ==
    IF sub = <<>> THEN TRUE
    ELSE IF seq = <<>> THEN FALSE
    ELSE IF Head(sub) = Head(seq) THEN isSubsequence(Tail(sub), Tail(seq))
    ELSE isSubsequence(sub, Tail(seq))

\* the {id, url, title} of the tab of p's query with this id
snapshotOf(p, id) ==
    LET tab == CHOOSE t \in SeqToSet(op[p].tabs) : t.id = id
    IN [id |-> tab.id, url |-> tab.url, title |-> tab.title]

urlsOf(stored) == [i \in 1..Len(stored) |-> stored[i].url]

\* the urls of the tabs the browser opened in a step, in tab-strip order
openedUrls ==
    urlsOf(SelectSeq(openTabs', LAMBDA tab : tab.id \notin openIds))

\* C16: a restore that reads a non-empty list calls chrome.tabs.create once
\* per entry, with the entries' urls in their order, and removes
\* lastClosedTabs and closedTabsCount only after the last call; a restore
\* that reads the storage as this one left it creates no tab.
C16_RestoreCreatesThenClears ==
    /\ [](\A p \in Procs :
            op[p].kind = "restore" =>
                /\ op[p].pc = "create" =>
                      /\ storageLocal.has
                      /\ op[p].created = urlsOf(SubSeq(op[p].tabsToRestore, 1, op[p].i - 1))
                /\ op[p].pc = "storageRemove" =>
                      /\ storageLocal.has
                      /\ op[p].created = urlsOf(op[p].tabsToRestore)
                /\ op[p].pc = "done" =>
                      op[p].created = urlsOf(op[p].tabsToRestore))
    /\ [][\A p \in Procs :
            /\ stepFrom(p, "create") =>
                  /\ openedUrls = <<op[p].tabsToRestore[op[p].i].url>>
                  /\ deletedIds = {}
            /\ stepFrom(p, "storageRemove") =>
                  /\ storageLocal' = EmptyStorage
                  /\ openTabs' = openTabs
            /\ (stepFrom(p, "storageGet") /\ storageLocal = EmptyStorage) =>
                  /\ op'[p].pc = "done"
                  /\ op'[p].created = <<>>
                  /\ openTabs' = openTabs]_vars

\* a restore that recreated the two tabs of a batch and cleared the storage
C16_Witness ==
    \E p \in Procs :
        /\ op[p].kind = "restore"
        /\ op[p].pc = "done"
        /\ Len(op[p].created) = 2
        /\ storageLocal = EmptyStorage
        /\ Len(openTabs) = 3

\* C17: a restore that finds no lastClosedTabs, or an empty list, creates no
\* tab, changes neither the tabs nor the storage, fulfils, and the sender
\* gets { success: true }.
C17_EmptyRestoreIsNoOp ==
    /\ [](\A p \in Procs :
            (op[p].kind = "restore" /\ op[p].pc = "done"
                /\ op[p].tabsToRestore = <<>>) =>
                /\ op[p].outcome = "fulfilled"
                /\ op[p].created = <<>>)
    /\ [][\A p \in Procs :
            /\ (stepFrom(p, "storageGet")
                    /\ (~storageLocal.has \/ storageLocal.lastClosedTabs = <<>>)) =>
                  /\ op'[p].pc = "done"
                  /\ op'[p].tabsToRestore = <<>>
                  /\ openTabs' = openTabs
                  /\ storageLocal' = storageLocal
            /\ (stepFrom(p, "done") /\ op[p].kind = "restore"
                    /\ op[p].tabsToRestore = <<>>) =>
                  /\ op'[p].response = "success"
                  /\ openTabs' = openTabs
                  /\ storageLocal' = storageLocal]_vars

\* a restore that found a stored list with no snapshot in it, at its end
C17_Witness ==
    \E p \in Procs :
        /\ op[p].kind = "restore"
        /\ op[p].pc = "done"
        /\ op[p].tabsToRestore = <<>>
        /\ storageLocal.has
        /\ storageLocal.lastClosedTabs = <<>>

\* C18: when a restore removes the stored batch, the batch in the storage is
\* the one it read and recreated, whatever a close trigger did meanwhile.
C18_RestoreClearsTheBatchItRecreated ==
    \A p \in Procs :
        (op[p].kind = "restore" /\ op[p].pc = "storageRemove") =>
            /\ storageLocal.has
            /\ storageLocal.lastClosedTabs = op[p].tabsToRestore

\* C19: the write of a close operation replaces what the storage held: after
\* it lastClosedTabs is the list this operation captured, every snapshot in
\* it has an id of this operation's close-list, and closedTabsCount is this
\* operation's.
C19_BatchReplacedEntirely ==
    [][\A p \in Procs :
          stepFrom(p, "set") =>
              /\ storageLocal'.has
              /\ storageLocal'.lastClosedTabs = op[p].tabsToStore
              /\ idSetOfSeq(storageLocal'.lastClosedTabs) \subseteq closeSet(p)
              /\ storageLocal'.closedTabsCount = Len(op[p].tabsToClose)]_vars

\* a close operation about to write its batch while the storage holds the
\* batch of an earlier one, which no restore has read
C19_Witness ==
    \E p \in Procs :
        /\ op[p].pc = "set"
        /\ op[p].tabsToStore # <<>>
        /\ storageLocal.has
        /\ storageLocal.lastClosedTabs # <<>>
        /\ idSetOfSeq(storageLocal.lastClosedTabs) \cap closeSet(p) = {}
        /\ \A q \in Procs : op[q].kind # "restore"

(***************************************************************************)
(* Properties of executeCustomRule's error path                            *)
(***************************************************************************)
\* an executeCustomRule whose pattern new RegExp rejects
invalidRule(p) ==
    /\ op[p].kind = "customRule"
    /\ op[p].ruleRegex = "[invalid(regex"

\* C20: an executeCustomRule with a pattern that does not compile ends
\* rejected with an empty close-list; none of its steps deletes or creates a
\* tab or changes the stored batch or the stored rules, and the sender gets
\* { success: false, error }.
C20_InvalidPatternFailsCleanly ==
    /\ [](\A p \in Procs :
            invalidRule(p) =>
                /\ op[p].pc \in {"queryTabs", "queryActive", "done"}
                /\ op[p].tabsToClose = <<>>
                /\ op[p].pc = "done" => op[p].outcome = "rejected")
    /\ [][\A p \in Procs :
            (invalidRule(p) /\ op'[p] # op[p]) =>
                /\ openTabs' = openTabs
                /\ storageLocal' = storageLocal
                /\ storageSync' = storageSync
                /\ op[p].pc = "done" => op'[p].response = "failure"]_vars

\* a rule with a pattern that does not compile has just been rejected, with
\* duplicate tabs open, a batch stored and rules stored
C20_Witness ==
    \E p \in Procs :
        /\ invalidRule(p)
        /\ op[p].pc = "done"
        /\ storageLocal.has
        /\ storageLocal.lastClosedTabs # <<>>
        /\ storageSync # <<>>
        /\ \E t1, t2 \in SeqToSet(openTabs) :
              t1.id # t2.id /\ getBaseUrl(t1.url) = getBaseUrl(t2.url)

(***************************************************************************)
(* Properties of testCustomRule                                            *)
(***************************************************************************)
\* a testCustomRule invocation
testing(p) == op[p].kind = "testRule"

\* C21: testCustomRule is a dry run. None of its steps deletes or creates a
\* tab or changes the stored batch or the stored rules; it queries the tabs
\* of the current window, and with a pattern that compiles it returns the
\* ids of exactly the eligible tabs of that query whose URL matches (the
\* focused tab's among them when it matches), each once, with matchCount the
\* number of ids returned; the sender gets that result.
C21_TestRuleIsDryRun ==
    /\ [](\A p \in Procs :
            (testing(p) /\ op[p].pc = "done" /\ regExpCompiles(op[p].ruleRegex)) =>
                /\ op[p].outcome = "fulfilled"
                /\ SeqToSet(op[p].matchingTabIds) = matchingIds(p)
                /\ Len(op[p].matchingTabIds) = Cardinality(matchingIds(p))
                /\ op[p].matchCount = Len(op[p].matchingTabIds)
                /\ op[p].currentTabId \in matchingIds(p) =>
                      op[p].currentTabId \in SeqToSet(op[p].matchingTabIds)
                /\ op[p].tabsToClose = <<>>)
    /\ [][\A p \in Procs :
            (testing(p) /\ op'[p] # op[p]) =>
                /\ openTabs' = openTabs
                /\ storageLocal' = storageLocal
                /\ storageSync' = storageSync
                /\ op[p].pc = "queryTabs" =>
                      op'[p].tabs = windowTabs(openTabs, CurrentWindow)
                /\ (op[p].pc = "done" /\ op[p].outcome = "fulfilled") =>
                      op'[p].response = "result"]_vars

\* a test that returned the focused tab's id alone, with a browser page the
\* pattern matches and a page it does not match in the query, and a rule stored
C21_Witness ==
    \E p \in Procs :
        /\ testing(p)
        /\ op[p].pc = "done"
        /\ op[p].matchingTabIds = <<op[p].currentTabId>>
        /\ op[p].matchCount = 1
        /\ Len(op[p].tabs) = 3
        /\ \E t \in SeqToSet(op[p].tabs) :
              isSpecialUrl(t.url) /\ regExpTest(op[p].ruleRegex, t.url)
        /\ storageSync # <<>>

(***************************************************************************)
(* Properties of getAllTabsAndCurrent                                      *)
(***************************************************************************)
\* the tab of p's query with this id
queriedTab(p, id) == CHOOSE t \in SeqToSet(op[p].tabs) : t.id = id

\* C22: the default and the custom triggers act on the current window only.
\* The tab list a trigger reads holds tabs of the current window alone, its
\* focused id is null or the id of a tab of the current window, its
\* close-list holds ids of that list and of no tab open in another window,
\* and a tab closed by the default rule has a tab of the current window with
\* its base URL that is kept.
C22_CurrentWindowOnly ==
    \A p \in Procs :
        /\ \A t \in SeqToSet(op[p].tabs) : t.windowId = CurrentWindow
        /\ closeSet(p) \subseteq idSetOfSeq(op[p].tabs)
        /\ closeSet(p) \cap idSetOfSeq(windowTabs(openTabs, OtherWindow)) = {}
        /\ op[p].currentTabId \notin idSetOfSeq(windowTabs(openTabs, OtherWindow))
        /\ op[p].kind = "closeDuplicates" =>
              \A id \in closeSet(p) :
                  \E kept \in SeqToSet(op[p].tabs) :
                      /\ kept.id \notin closeSet(p)
                      /\ kept.windowId = CurrentWindow
                      /\ getBaseUrl(kept.url) = getBaseUrl(queriedTab(p, id).url)

\* a default trigger that closed the older of two duplicates of the current
\* window while a tab on the same page stays open in the other window
C22_Witness ==
    \E p \in Procs :
        /\ op[p].kind = "closeDuplicates"
        /\ op[p].pc = "done"
        /\ op[p].outcome = "fulfilled"
        /\ Len(op[p].tabsToClose) = 1
        /\ \E t \in SeqToSet(windowTabs(openTabs, OtherWindow)) :
              /\ getBaseUrl(t.url) = getBaseUrl(queriedTab(p, op[p].tabsToClose[1]).url)
              /\ t.id < op[p].tabsToClose[1]

(***************************************************************************)
(* Properties of a trigger that finds nothing to close                     *)
(***************************************************************************)
\* a close trigger past its selection
closing(p) ==
    /\ op[p].kind \in {"closeDuplicates", "customRule"}
    /\ op[p].pc \in {"get", "set", "remove", "done"}

\* no two eligible tabs of p's query have one base URL
noDuplicates(p) ==
    \A key \in baseUrlKeys(op[p].tabs) :
        Cardinality(baseUrlGroup(op[p].tabs, key)) = 1

\* C23: a trigger whose close-list is empty is a silent no-op. The default
\* rule's list is empty when no two eligible tabs share a base URL, a custom
\* rule's when no eligible tab matches; with an empty list the handler ends
\* fulfilled at once, without a capture, a storage write or a deletion
\* request, none of its steps changes the tabs or the stored batch, and the
\* popup gets { success: true }.
C23_EmptyCloseListIsNoOp ==
    /\ [](\A p \in Procs :
            /\ op[p].pc \in {"get", "set", "remove"} => op[p].tabsToClose # <<>>
            /\ (closing(p) /\ op[p].kind = "closeDuplicates" /\ noDuplicates(p)) =>
                  op[p].tabsToClose = <<>>
            /\ (customSelected(p) /\ matchingIds(p) = {}) =>
                  op[p].tabsToClose = <<>>
            /\ (closing(p) /\ op[p].tabsToClose = <<>>
                    /\ regExpCompiles(op[p].ruleRegex)) =>
                  /\ op[p].pc = "done"
                  /\ op[p].outcome = "fulfilled"
                  /\ op[p].tabsToStore = <<>>)
    /\ [][\A p \in Procs :
            /\ (stepFrom(p, "queryTabs") \/ stepFrom(p, "queryActive")) =>
                  /\ openTabs' = openTabs
                  /\ storageLocal' = storageLocal
            /\ (stepFrom(p, "done") /\ op[p].tabsToClose = <<>>
                    /\ op[p].outcome = "fulfilled") =>
                  /\ openTabs' = openTabs
                  /\ storageLocal' = storageLocal
                  /\ op'[p].response = IF p = "popup" THEN "success" ELSE "none"]_vars

\* a custom rule that matched none of the open tabs has ended, and the batch
\* an earlier trigger stored is still in the storage
C23_Witness ==
    \E p \in Procs :
        /\ customSelected(p)
        /\ op[p].pc = "done"
        /\ op[p].tabs # <<>>
        /\ matchingIds(p) = {}
        /\ storageLocal.has
        /\ storageLocal.lastClosedTabs # <<>>

\* C24: the tab list and the focused id a trigger selects with are one
\* snapshot of the browser: the focused id is the id of the active tab of the
\* list read, and null only when the list is empty, since no tab is opened,
\* closed or activated between the two reads.
C24_SelectionFromOneSnapshot ==
    \A p \in Procs :
        closing(p) =>
            IF op[p].tabs = <<>> THEN op[p].currentTabId = null
            ELSE op[p].currentTabId \in idSetOfSeq(op[p].tabs)

(***************************************************************************)
(* The default rule against the README's account of it                     *)
(***************************************************************************)
\* two URLs that differ in their query string and in nothing else
differInParametersOnly(u1, u2) ==
    /\ sameUpToPath(u1, u2)
    /\ u1.frag = u2.frag
    /\ u1.query # u2.query

\* C25: the default rule, which the keyboard shortcut runs, treats two tabs
\* whose URLs differ only in their parameters as different: when they are
\* the only tabs of the list, findTabsToClose returns neither.
C25_DefaultKeepsParameterVariants ==
    selPc \in {"found", "again"} =>
        \A t1, t2 \in SeqToSet(selTabs) :
            (Len(selTabs) = 2 /\ differInParametersOnly(t1.url, t2.url)) =>
                selClose = <<>>

(***************************************************************************)
(* Who writes the stores                                                   *)
(***************************************************************************)
\* C26: the stored batch and the stored rules change only in a step of a
\* handler of the service worker, started by the command or by a message:
\* the popup writes neither store itself.
C26_StoresChangeOnlyInBackground ==
    [][(storageLocal' # storageLocal \/ storageSync' # storageSync) =>
          \E p \in Procs : op[p].pc # "idle" /\ op'[p] # op[p]]_vars

(***************************************************************************)
(* Properties of the service worker across restarts                        *)
(***************************************************************************)
\* the step in which the idle service worker is stopped and started again
restarts ==
    /\ \A p \in Procs : op[p].pc = "idle"
    /\ op' # op
    /\ op' = [p \in Procs |-> IdleOp]

\* a listener's invocation begins
begins(p) == op[p].pc = "idle" /\ op'[p].pc # "idle"

C28_EveryRequestAnswered ==
    [][(stepFrom("popup", "done")
            /\ op["popup"].kind \in {"closeDuplicates", "customRule", "restore"}) =>
          op'["popup"].response \in {"success", "failure"}]_vars

specialSchemes == {"chrome", "about", "chrome-extension", "edge"}

\* C30: filterSpecialUrls returns exactly the tabs of the list whose URL
\* starts with none of chrome://, about:, chrome-extension:// and edge://,
\* each once and in their order in the list, and the empty list when every
\* tab is special.
C30_FilterKeepsRegularTabsInOrder ==
    selPc = "found" =>
        LET kept == filterSpecialUrls(selTabs)
        IN /\ SeqToSet(kept) =
                 {t \in SeqToSet(selTabs) : t.url.scheme \notin specialSchemes}
           /\ Len(kept) = Cardinality(SeqToSet(kept))
           /\ isSubsequence(kept, selTabs)
           /\ (\A t \in SeqToSet(selTabs) : t.url.scheme \in specialSchemes) =>
                 kept = <<>>

\* a list of three with a special tab between two regular ones, the first
\* with a higher id than the last: the two regular tabs come back in list
\* order
C30_Witness ==
    /\ selPc = "found"
    /\ Len(selTabs) = 3
    /\ selTabs[2].url.scheme \in specialSchemes
    /\ selTabs[1].id > selTabs[3].id
    /\ filterSpecialUrls(selTabs) = <<selTabs[1], selTabs[3]>>

(***************************************************************************)
(* Properties of executeCustomRule's close-list                            *)
(***************************************************************************)
\* C31: the close-list of executeCustomRule holds only ids of eligible tabs
\* of its query whose URL the pattern matches, each once, whether or not the
\* focused tab matches.
C31_CustomClosesOnlyMatches ==
    \A p \in Procs :
        customSelected(p) =>
            /\ closeSet(p) \subseteq matchingIds(p)
            /\ Len(op[p].tabsToClose) = Cardinality(closeSet(p))

\* a rule that closed its one match while the focused tab and another tab,
\* which the pattern does not match, are left out of the list
C31_Witness ==
    \E p \in Procs :
        /\ customSelected(p)
        /\ Len(op[p].tabsToClose) = 1
        /\ op[p].currentTabId \in idSet(eligibleTabs(op[p].tabs)) \ matchingIds(p)
        /\ Cardinality(idSet(eligibleTabs(op[p].tabs)) \ matchingIds(p)) = 2

(***************************************************************************)
(* Properties of what a close operation deletes                            *)
(***************************************************************************)
\* the {id, url, title} of the open tab with this id
snapshotOfOpen(id) ==
    LET tab == CHOOSE t \in SeqToSet(openTabs) : t.id = id
    IN [id |-> tab.id, url |-> tab.url, title |-> tab.title]

\* C32: every tab a close operation deletes is recorded in the batch that
\* operation wrote. The write stores the list the operation captured, the
\* list does not change afterwards, and each tab chrome.tabs.remove deletes
\* has its {id, url, title} in it; tab ids are never handed out twice, also
\* while a restore creates tabs between the operation's steps.
C32_DeletedTabsAreRecorded ==
    [][\A p \in Procs :
          /\ stepFrom(p, "set") =>
                /\ storageLocal'.has
                /\ storageLocal'.lastClosedTabs = op[p].tabsToStore
                /\ op'[p].tabsToStore = op[p].tabsToStore
          /\ stepFrom(p, "remove") =>
                /\ op'[p].tabsToStore = op[p].tabsToStore
                /\ \A id \in deletedIds :
                      \E i \in 1..Len(op[p].tabsToStore) :
                          op[p].tabsToStore[i] = snapshotOfOpen(id)
          /\ \A tab \in SeqToSet(openTabs') :
                tab.id \notin openIds => tab.id >= nextTabId]_vars

\* a close operation that deleted the two tabs of its list, both recorded,
\* after a restore had opened one of them
C32_Witness ==
    \E p \in Procs :
        /\ closing(p)
        /\ op[p].pc = "done"
        /\ op[p].outcome = "fulfilled"
        /\ Len(op[p].tabsToClose) = 2
        /\ idsOfTabs(op[p].tabsToStore) = op[p].tabsToClose
        /\ closeSet(p) \cap openIds = {}
        /\ \E id \in closeSet(p) : id > MaxTabId

(***************************************************************************)
(* Properties of overlapping default-rule triggers                         *)
(***************************************************************************)
\* C33: default-rule triggers, overlapping or not, with the user switching
\* tabs but closing none, never delete the last tab of a base URL: after a
\* deletion every base URL of a deleted tab still has a tab open, so every
\* base URL open before the triggers is open after them.
C33_EveryBaseUrlSurvives ==
    [][\A p \in Procs :
          stepFrom(p, "remove") =>
              \A id \in deletedIds :
                  \E t \in SeqToSet(openTabs') :
                      getBaseUrl(t.url) = getBaseUrl(snapshotOfOpen(id).url)]_vars

(***************************************************************************)
(* Properties of the closed count after a restore                          *)
(***************************************************************************)
\* onMessage getClosedCount, and loadPopupData: data.closedTabsCount || 0
closedCount ==
    IF storageLocal.has THEN storageLocal.closedTabsCount ELSE 0

\* C34: when a restore has ended, no batch is outstanding: the closed count
\* the popup reads is 0 (it shows the reopen section for a count above 0),
\* also when the stored list was empty.
C34_RestoreLeavesNoBatch ==
    \A p \in Procs :
        (op[p].kind = "restore" /\ op[p].pc = "done") => closedCount = 0

\* ---------------------------------------------------------------------
\* The popup's rule form (popup.js): the Add Rule button, a rule's edit
\* and delete buttons, dismissing the modal, typing, and the submission
\* handler, which suspends at its read and at its write of the rules.
\* ---------------------------------------------------------------------

\* rules the form may add in one run
MaxAdds == 1

\* what the user types into the two inputs
TypedNames == {" ", " N "}
TypedRegexes == {" b\\.com ", "[invalid(regex"}

\* String.prototype.trim on the texts above and on the stored fields
trim(text) ==
    CASE text = " " -> ""
      [] text = " N " -> "N"
      [] text = " b\\.com " -> "b\\.com"
      [] OTHER -> text

\* handleAddRule's two checks, in their order; the alert it shows, "" if none
formAlert_noRegExpCheck(name, regex) ==
    IF name = "" \/ regex = "" THEN "Please fill in all fields" ELSE ""

formAlert(name, regex) ==
    IF name = "" \/ regex = "" THEN "Please fill in all fields"
    ELSE IF ~regExpCompiles(regex) THEN "Invalid regex pattern"
    ELSE ""

\* `custom-${Date.now()}`
newRuleId(now) == "custom-" \o ToString(now)

PopupInit ==
    /\ openTabs = <<>>
    /\ activeId = null
    /\ nextTabId = 1
    /\ storageLocal = EmptyStorage
    /\ storageSync \in StoredRuleSets
    /\ op = [p \in Procs |-> IdleOp]
    /\ modal = ModalClosed
    /\ selTabs = <<>>
    /\ selFocus = null
    /\ selClose = <<>>
    /\ selAgain = <<>>
    /\ selRegex = ""
    /\ selCustom = <<>>
    /\ selPc = "input"

\* every step of the popup's form leaves the tabs, the last batch and the
\* service worker alone
popupFrame ==
    /\ UNCHANGED <<openTabs, activeId, nextTabId, storageLocal, op>>
    /\ UNCHANGED selVars

\* the Add Rule button: it only shows the modal
ClickAddRule ==
    /\ modal.display = "none"
    /\ modal' = [modal EXCEPT !.display = "flex", !.openedBy = "add",
                              !.alert = ""]
    /\ UNCHANGED storageSync
    /\ popupFrame

\* a listed rule's edit button: editRule(rule)
ClickEditRule(i) ==
    /\ modal.display = "none"
    /\ i \in 1..Len(storageSync)
    /\ modal' = [modal EXCEPT !.ruleName = storageSync[i].name,
                              !.ruleRegex = storageSync[i].regex,
                              !.editId = storageSync[i].id,
                              !.display = "flex",
                              !.openedBy = "edit",
                              !.alert = ""]
    /\ UNCHANGED storageSync
    /\ popupFrame

\* the modal's close button, or a click outside its content: it only hides
\* the modal
ClickCloseModal ==
    /\ modal.display = "flex"
    /\ modal' = [modal EXCEPT !.display = "none", !.alert = ""]
    /\ UNCHANGED storageSync
    /\ popupFrame

\* the user fills in the two inputs
TypeRule(ruleName, ruleRegex) ==
    /\ modal.display = "flex"
    /\ modal' = [modal EXCEPT !.ruleName = ruleName, !.ruleRegex = ruleRegex,
                              !.alert = ""]
    /\ UNCHANGED storageSync
    /\ popupFrame

\* handleAddRule up to its first await: trim, the two checks, and the read
\* of the rules it asks for
HandleAddRule ==
    /\ modal.display = "flex"
    /\ modal.pc = "idle"
    /\ LET name == trim(modal.ruleName)
           regex == trim(modal.ruleRegex)
       IN  IF formAlert(name, regex) # ""
           THEN modal' = [modal EXCEPT !.alert = formAlert(name, regex)]
           ELSE /\ modal.editId # "" \/ modal.now < 3 + MaxAdds
                /\ modal' = [modal EXCEPT !.pc = "get", !.name = name,
                                          !.regex = regex, !.alert = "",
                                          !.via = modal.openedBy]
    /\ UNCHANGED storageSync
    /\ popupFrame

\* the read has answered: data-edit-id decides between replacing the rule
\* of that id and appending a new one, and the rules are written
SubmitGet ==
    /\ modal.pc = "get"
    /\ IF modal.editId # ""
       THEN /\ storageSync' =
                   [i \in 1..Len(storageSync) |->
                       IF storageSync[i].id = modal.editId
                       THEN [storageSync[i] EXCEPT !.name = modal.name,
                                                   !.regex = modal.regex]
                       ELSE storageSync[i]]
            /\ modal' = [modal EXCEPT !.editId = "", !.pc = "set"]
       ELSE /\ storageSync' =
                   Append(storageSync, [id |-> newRuleId(modal.now),
                                        name |-> modal.name,
                                        regex |-> modal.regex])
            /\ modal' = [modal EXCEPT !.now = modal.now + 1, !.pc = "set"]
    /\ popupFrame

\* the write has answered: the form is reset and the modal hidden
SubmitDone ==
    /\ modal.pc = "set"
    /\ modal' = [modal EXCEPT !.ruleName = "", !.ruleRegex = "",
                              !.display = "none", !.pc = "idle"]
    /\ UNCHANGED storageSync
    /\ popupFrame

PopupNext ==
    \/ ClickAddRule
    \/ \E i \in 1..(2 + MaxAdds) : ClickEditRule(i)
    \/ ClickCloseModal
    \/ \E ruleName \in TypedNames, ruleRegex \in TypedRegexes :
          TypeRule(ruleName, ruleRegex)
    \/ HandleAddRule
    \/ SubmitGet
    \/ SubmitDone
    \/ \E i \in 1..Len(storageSync) : PopupDeleteRule(storageSync[i].id)

SpecPopup == PopupInit /\ [][PopupNext]_vars

\* ---------------------------------------------------------------------
\* Properties of the popup's rule form
\* ---------------------------------------------------------------------

\* the step at which a submission writes the rules
writesRules == modal.pc = "get" /\ modal'.pc = "set"

\* C35: a valid submission of a form that the Add Rule button opened appends
\* one new rule to the stored rules and leaves every rule stored before as
\* it was, whatever was opened, dismissed or submitted earlier.
C35_AddButtonAlwaysAppends ==
    [][(writesRules /\ modal.via = "add") =>
          /\ Len(storageSync') = Len(storageSync) + 1
          /\ SubSeq(storageSync', 1, Len(storageSync)) = storageSync]_vars

\* a non-empty name and a non-empty pattern that new RegExp accepts
validRule(rule) ==
    /\ rule.name # ""
    /\ rule.regex # ""
    /\ rule.regex # "[invalid(regex"

\* the form as a submission reads it has an empty field or a pattern that
\* does not compile
formIsInvalid ==
    \/ trim(modal.ruleName) = ""
    \/ trim(modal.ruleRegex) = ""
    \/ trim(modal.ruleRegex) = "[invalid(regex"

\* C36: every rule that a step of the popup puts into the stored rules has
\* a non-empty name and a pattern that compiles as a regular expression; a
\* step taken while the form has an empty field or an invalid pattern starts
\* no write and leaves the stored rules as they are, but for a rule deleted
\* with its delete button.
C36_WrittenRulesAreValid ==
    /\ [][\A i \in 1..Len(storageSync') :
             storageSync'[i] \notin SeqToSet(storageSync) =>
                 validRule(storageSync'[i])]_vars
    /\ [][(modal.pc = "idle" /\ formIsInvalid) =>
             /\ modal'.pc = "idle"
             /\ SeqToSet(storageSync') \subseteq SeqToSet(storageSync)]_vars

\* the form has added a rule and changed another one, and the submission
\* after those was turned down for its pattern
C36_Witness ==
    /\ modal.alert = "Invalid regex pattern"
    /\ modal.pc = "idle"
    /\ \E i \in 1..Len(storageSync) : storageSync[i].id = newRuleId(3)
    /\ \E i \in 1..Len(storageSync) :
          /\ storageSync[i].id = RuleA.id
          /\ storageSync[i].name = "N"

\* ---------------------------------------------------------------------
\* The default rule in a host that numbers its tabs from any first id:
\* chrome.tabs types a tab's id as an integer and names no smallest one.
\* ---------------------------------------------------------------------

\* the id the host gives to the first tab of the session
FirstTabIds == {0, 1}

HostInit ==
    /\ openTabs = <<>>
    /\ activeId = null
    /\ nextTabId \in FirstTabIds
    /\ storageLocal = EmptyStorage
    /\ storageSync = <<>>
    /\ op = [p \in Procs |-> IdleOp]
    /\ modal = ModalClosed
    /\ selTabs = <<>>
    /\ selFocus = null
    /\ selClose = <<>>
    /\ selAgain = <<>>
    /\ selRegex = ""
    /\ selCustom = <<>>
    /\ selPc = "input"

HostNext ==
    \/ \E url \in OpenUrls, activate \in BOOLEAN :
          UserOpenTab(url, CurrentWindow, activate)
    \/ \E url \in OtherWindowUrls : UserOpenTab(url, OtherWindow, FALSE)
    \/ \E id \in 0..MaxTabId : UserCloseTab(id)
    \/ \E id \in 0..MaxTabId : UserActivateTab(id)
    \/ OnCommand
    \/ OnMessageExecuteCloseDuplicates
    \/ \E p \in Procs : QueryTabs(p)
    \/ \E p \in Procs : QueryActive(p)
    \/ \E p \in Procs : GetTab(p)
    \/ \E p \in Procs : StorageSet(p)
    \/ \E p \in Procs : RemoveTabs(p)
    \/ \E p \in Procs : Settle(p)

SpecHost == HostInit /\ [][HostNext]_vars

\* the current window has an active tab
hasActiveTab ==
    \E i \in 1..Len(openTabs) :
        openTabs[i].windowId = CurrentWindow /\ openTabs[i].id = activeId

\* C37: when getAllTabsAndCurrent's second query answers, the currentTabId
\* it returns is the id of the current window's active tab if there is one,
\* whatever integer that id is (0 included), and null only if there is none.
C37_CurrentTabIdIsActiveId ==
    [][\A p \in Procs :
          stepFrom(p, "queryActive") =>
              op'[p].currentTabId = IF hasActiveTab THEN activeId ELSE null]_vars

====
